---- MODULE Spec2Model ----
(***************************************************************************)
(* ZipReader (src/unnamed/part_000): the constructor's backward search for *)
(* the end-of-central-directory record, its walk of the central directory, *)
(* and extractFile with the streams it returns.  The buffer is modelled    *)
(* byte for byte; record layouts and offsets are those of the source.      *)
(***************************************************************************)
EXTENDS Integers, Sequences, FiniteSets, TLC

\* ------------------------------------------------------------- bounds

\* Longest central directory of the archives drawn in Init.
MaxEntries == 2
\* Streams the caller holds at the same time.
MaxStreams == 2

\* ---------------------------------------------------------- constants

EOCD_SIG == 101010256       \* 0x06054b50
CD_SIG == 33639248          \* 0x02014b50
LOCAL_SIG == 67324752       \* 0x04034b50
maxCommentSize == 65535

\* What a DataView read or a typed-array view outside the buffer throws.
RangeError == 0 - 1

\* ------------------------------------------------------------- buffer

\* An ArrayBuffer: the bytes of `bytes`, with gapLen zero bytes inserted
\* after the first gapAt of them (a long run of zeros is kept as its
\* length, not as a sequence).
byteLength(b) == Len(b.bytes) + b.gapLen

byteAt(b, i) ==
  IF i < b.gapAt THEN b.bytes[i + 1]
  ELSE IF i < b.gapAt + b.gapLen THEN 0
  ELSE b.bytes[i - b.gapLen + 1]

InRange(b, off, n) == off >= 0 /\ off + n <= byteLength(b)

\* DataView.getUint16(off, true)
getUint16(b, off) ==
  IF ~InRange(b, off, 2) THEN RangeError
  ELSE byteAt(b, off) + 256 * byteAt(b, off + 1)

\* TLC's integers are 32 bits wide and signed, a Uint32 is not: every
\* value from 0x7F000000 up is kept as Huge.  The buffers of the model
\* are far shorter, so that such a value, read as an offset or a size, is
\* past the end of the buffer whatever it is exactly, and stays so with
\* header and field lengths added.
Huge == 127 * 16777216

\* DataView.getUint32(off, true)
getUint32(b, off) ==
  IF ~InRange(b, off, 4) THEN RangeError
  ELSE IF byteAt(b, off + 3) >= 127 THEN Huge
  ELSE byteAt(b, off) + 256 * byteAt(b, off + 1)
       + 65536 * byteAt(b, off + 2) + 16777216 * byteAt(b, off + 3)

\* new Uint8Array(buffer, off, n): a view, no copy.  Its bytes are those
\* the buffer holds when the view is read.
ViewOk(b, off, n) == off >= 0 /\ off <= byteLength(b) /\ n <= byteLength(b) - off

ViewBytes(b, off, n) == [k \in 1..n |-> byteAt(b, off + k - 1)]

\* new TextDecoder().decode(bytes), for bytes outside 0xE0..0xF4 (no
\* three- or four-byte sequences, no byte order mark): ASCII is kept, a
\* well-formed two-byte sequence gives its code point, any other byte
\* gives U+FFFD.
RECURSIVE Utf8Decode(_)
Utf8Decode(s) ==
  IF s = << >> THEN << >>
  ELSE IF s[1] < 128 THEN <<s[1]>> \o Utf8Decode(Tail(s))
  ELSE IF s[1] >= 194 /\ s[1] <= 223 /\ Len(s) >= 2 /\ s[2] >= 128 /\ s[2] <= 191
       THEN <<(s[1] - 192) * 64 + (s[2] - 128)>> \o Utf8Decode(Tail(Tail(s)))
  ELSE <<65533>> \o Utf8Decode(Tail(s))

\* ------------------------------------------------- archives (inputs)

\* The archives the reader is given are written the way the fixtures of
\* src/test/zip.test.ts are laid out: local records, central directory,
\* end-of-central-directory record, all integers little-endian.
LE16(v) == <<v % 256, (v \div 256) % 256>>

LE32(v) == <<v % 256, (v \div 256) % 256, (v \div 65536) % 256, (v \div 16777216) % 256>>

Fill(n, v) == [k \in 1..n |-> v]

\* Raw deflate of `content` as one final stored block (RFC 1951, 3.2.4).
DeflateStored(content) ==
  <<1>> \o LE16(Len(content)) \o LE16(65535 - Len(content)) \o content

\* One entry as the writer laid it down.  content is the source file;
\* payload the bytes stored for it; the remaining fields are the header
\* fields, which a damaged or hostile archive may set to anything.
Stored(name, content) ==
  [name |-> name, content |-> content, payload |-> content,
   method |-> 0, flags |-> 0, lsig |-> LOCAL_SIG,
   csize |-> Len(content), usize |-> Len(content),
   lextra |-> 0, cextra |-> 0, ccomment |-> << >>,
   time |-> 33048, date |-> 23358, crc |-> 305419896]

Deflated(name, content) ==
  [Stored(name, content) EXCEPT !.payload = DeflateStored(content),
                                !.csize = Len(DeflateStored(content)),
                                !.method = 8]

\* "a", stored.
KA == Stored(<<97>>, <<1, 2>>)
\* A second "a", its local extra field longer than the central copy says.
KA2 == [Stored(<<97>>, <<3>>) EXCEPT !.lextra = 2, !.cextra = 1, !.ccomment = <<204>>]
\* "A", deflated.
KB == Deflated(<<65>>, <<4>>)
\* "A", compression method 12 (bzip2).
KU == [Stored(<<65>>, <<5>>) EXCEPT !.method = 12]
\* "A", encrypted: the payload is ciphertext.
KE == [Stored(<<65>>, <<6>>) EXCEPT !.flags = 1, !.payload = <<7>>]
\* "A", no local-header signature where the directory points.
KS == [Stored(<<65>>, <<8>>) EXCEPT !.lsig = CD_SIG]
\* "A", stored, the declared uncompressed size wrong.
KZ == [Stored(<<65>>, <<9, 9>>) EXCEPT !.usize = 5]
\* "a", deflated, the payload no valid deflate data (block type 3).
KX == [Deflated(<<97>>, <<1>>) EXCEPT !.payload = <<7, 0>>, !.csize = 2]
\* A name that is not UTF-8, stored, the declared compressed size past
\* the end of the buffer.
KO == [Stored(<<255>>, <<1>>) EXCEPT !.csize = 60000]

\* Whether the writer laid the entry down as the format asks.
Faithful(k) ==
  /\ k.lsig = LOCAL_SIG
  /\ k.flags = 0
  /\ k.method \in {0, 8}
  /\ k.payload = (IF k.method = 0 THEN k.content ELSE DeflateStored(k.content))
  /\ k.csize = Len(k.payload)
  /\ k.usize = Len(k.content)

LocalRecord(k) ==
  LE32(k.lsig) \o LE16(20) \o LE16(k.flags) \o LE16(k.method)
  \o LE16(k.time) \o LE16(k.date) \o LE32(k.crc)
  \o LE32(k.csize) \o LE32(k.usize)
  \o LE16(Len(k.name)) \o LE16(k.lextra)
  \o k.name \o Fill(k.lextra, 238) \o k.payload

CentralRecord(k, sig, off) ==
  LE32(sig) \o LE16(798) \o LE16(20) \o LE16(k.flags) \o LE16(k.method)
  \o LE16(k.time) \o LE16(k.date) \o LE32(k.crc)
  \o LE32(k.csize) \o LE32(k.usize)
  \o LE16(Len(k.name)) \o LE16(k.cextra) \o LE16(Len(k.ccomment))
  \o LE16(0) \o LE16(0) \o LE32(0) \o LE32(off)
  \o k.name \o Fill(k.cextra, 221) \o k.ccomment

\* "A", stored; the comment of its central record holds what reads as a
\* central record of its own (for an entry "A" of method 12).
KD == [Stored(<<65>>, <<2>>) EXCEPT !.ccomment = CentralRecord(KU, CD_SIG, 0)]

Kinds == {KA, KA2, KB, KU, KE, KS, KZ, KX, KO, KD}

EocdRecord(n, cdSize, cdOff, commentLen) ==
  LE32(EOCD_SIG) \o LE16(0) \o LE16(0) \o LE16(n) \o LE16(n)
  \o LE32(cdSize) \o LE32(cdOff) \o LE16(commentLen)

RECURSIVE LocalRecords(_)
LocalRecords(ks) ==
  IF ks = << >> THEN << >> ELSE LocalRecord(Head(ks)) \o LocalRecords(Tail(ks))

\* The central records of ks, whose local records start at off; the
\* last one carries lastSig as its signature.
RECURSIVE CentralRecords(_, _, _)
CentralRecords(ks, off, lastSig) ==
  IF ks = << >> THEN << >>
  ELSE CentralRecord(Head(ks), IF Len(ks) = 1 THEN lastSig ELSE CD_SIG, off)
       \o CentralRecords(Tail(ks), off + Len(LocalRecord(Head(ks))), lastSig)

Mangles ==
  {"comment", "sigInComment", "trunc0", "trunc21", "truncLast",
   "badCdSig", "countPlus", "countMinus", "cdOffBeyond"}

BigMangles == {"bigComment", "bigTrail"}

\* The buffer holding the archive of entries ks, damaged as m says.
Build(ks, m) ==
  LET n == Len(ks)
      locals == LocalRecords(ks)
      central == CentralRecords(ks, 0, IF m = "badCdSig" THEN LOCAL_SIG ELSE CD_SIG)
      count == CASE m = "countPlus" -> n + 1
                 [] m = "countMinus" /\ n > 0 -> n - 1
                 [] OTHER -> n
      cdOff == IF m = "cdOffBeyond"
               THEN Len(locals) + Len(central) + 29
               ELSE Len(locals)
      \* A comment that itself holds a trailer: one entry fewer, same directory.
      fake == EocdRecord(IF n > 0 THEN n - 1 ELSE 0, Len(central), cdOff, 0)
      comment == CASE m = "comment" -> <<1, 2, 3>>
                   [] m = "sigInComment" -> fake
                   [] OTHER -> << >>
      commentLen == IF m = "bigComment" THEN maxCommentSize ELSE Len(comment)
      all == locals \o central
             \o EocdRecord(count, Len(central), cdOff, commentLen) \o comment
      kept == CASE m = "trunc0" -> << >>
                [] m = "trunc21" -> SubSeq(all, 1, 21)
                [] m = "truncLast" -> SubSeq(all, 1, Len(all) - 1)
                [] OTHER -> all
  IN [bytes |-> kept,
      gapAt |-> Len(kept),
      gapLen |-> CASE m = "bigComment" -> maxCommentSize
                   [] m = "bigTrail" -> maxCommentSize + 1
                   [] OTHER -> 0]

RECURSIVE SeqsUpTo(_, _)
SeqsUpTo(S, n) ==
  IF n = 0 THEN {<< >>}
  ELSE LET shorter == SeqsUpTo(S, n - 1)
       IN shorter \cup {Append(s, x) : s \in {t \in shorter : Len(t) = n - 1}, x \in S}

\* The kinds a careful writer produces.
Plain == {KA, KA2, KB}

\* Layouts of up to MaxEntries entries, at most one of them not plain, and
\* damaged layouts of up to two plain entries.
Archives ==
  {[entries |-> ks, mangle |-> "none"] :
     ks \in {s \in SeqsUpTo(Kinds, MaxEntries) :
               Cardinality({j \in DOMAIN s : s[j] \notin Plain}) <= 1}}
  \cup {[entries |-> ks, mangle |-> m] : ks \in SeqsUpTo({KA, KB}, 2), m \in Mangles}

\* Layouts for the trailer search: trailing comments, one of them holding
\* a trailer of its own, and 65535 and 65536 bytes after the trailer.
ScanArchives ==
  {[entries |-> ks, mangle |-> m] :
     ks \in {<<KA>>, <<KA, KB>>},
     m \in {"none", "comment", "sigInComment", "truncLast", "trunc21"} \cup BigMangles}


\* ------------------------------------------------------------- reader

VARIABLES
  src,          \* how the buffer was laid out (the input; never read by the reader)
  buf,          \* dataView: the ArrayBuffer the reader was constructed on
  pc,           \* where the constructor is: "findEOCD", "parse", "ready", "failed"
  i,            \* findEOCD's loop variable
  eocdOffset,   \* parse's eocdOffset
  numEntries,   \* parse's numEntries
  centralDirSize, \* parse's centralDirSize
  offset,       \* parse's cursor into the central directory
  files,        \* this.files
  err,          \* what the constructor threw
  results,      \* per filename, how the latest extractFile call ended
  streams       \* the streams the caller holds, oldest first

vars == <<src, buf, pc, i, eocdOffset, numEntries, centralDirSize, offset,
          files, err, results, streams>>

\* The filenames extractFile is called with: "a", "A", U+FFFD.
Names == {<<97>>, <<65>>, <<65533>>}

Max(a, b) == IF a >= b THEN a ELSE b

\* searchStart one offset short of the longest comment.
searchStartShort(b) == Max(0, byteLength(b) - maxCommentSize - 21)

\* findEOCD's searchStart.
searchStart(b) == Max(0, byteLength(b) - maxCommentSize - 22)

\* dosDateTimeToDate: the arguments handed to the Date constructor.
dosDateTimeToDate(dosDate, dosTime) ==
  [year |-> ((dosDate \div 512) % 128) + 1980,
   month |-> ((dosDate \div 32) % 16) - 1,
   day |-> dosDate % 32,
   hour |-> (dosTime \div 2048) % 32,
   minute |-> (dosTime \div 32) % 64,
   second |-> (dosTime % 32) * 2]

\* The reads parseCentralDirectoryEntry makes of the record at off.
CentralFields(b, off) ==
  [versionNeeded |-> getUint16(b, off + 6),
   generalPurpose |-> getUint16(b, off + 8),
   compressionMethod |-> getUint16(b, off + 10),
   lastModTime |-> getUint16(b, off + 12),
   lastModDate |-> getUint16(b, off + 14),
   crc32 |-> getUint32(b, off + 16),
   compressedSize |-> getUint32(b, off + 20),
   uncompressedSize |-> getUint32(b, off + 24),
   filenameLen |-> getUint16(b, off + 28),
   localHeaderOffset |-> getUint32(b, off + 42)]

\* Whether parseCentralDirectoryEntry(offset) throws: a read, or the
\* view of the filename, falls outside the buffer.
parseCentralDirectoryEntryThrows(b, off) ==
  LET r == CentralFields(b, off)
  IN \/ \E k \in DOMAIN r : r[k] = RangeError
     \/ ~ViewOk(b, off + 46, r.filenameLen)

\* parseCentralDirectoryEntry(offset), when it does not throw.
parseCentralDirectoryEntry(b, off) ==
  LET r == CentralFields(b, off)
  IN [filename |-> Utf8Decode(ViewBytes(b, off + 46, r.filenameLen)),
      encrypted |-> (r.generalPurpose % 2) # 0,
      compressedSize |-> r.compressedSize,
      uncompressedSize |-> r.uncompressedSize,
      compressionMethod |-> r.compressionMethod,
      crc32 |-> r.crc32,
      lastModified |-> dosDateTimeToDate(r.lastModDate, r.lastModTime),
      offset |-> r.localHeaderOffset]

\* Throw with the error swallowed: the constructor returns all the same.
ThrowSwallowed(e) ==
  /\ pc' = "ready"
  /\ err' = e

\* The constructor throws: no reader reaches the caller.
Throw(e) ==
  /\ pc' = "failed"
  /\ err' = e

\* recordLength with the comment length forgotten.
recordLengthNoComment(b, off) ==
  LET filenameLen == getUint16(b, off + 28)
      extraLen == getUint16(b, off + 30)
  IN 46 + filenameLen + extraLen

\* parse's step to the next record: 46 and the three lengths of this one.
recordLength(b, off) ==
  LET filenameLen == getUint16(b, off + 28)
      extraLen == getUint16(b, off + 30)
      commentLen == getUint16(b, off + 32)
  IN 46 + filenameLen + extraLen + commentLen

\* One turn of findEOCD's loop; on a match parse reads the trailer, on
\* running out of the window parse throws.
FindEOCDStep ==
  /\ pc = "findEOCD"
  /\ IF i >= searchStart(buf)
     THEN LET signature == getUint32(buf, i)
          IN IF signature = RangeError
             THEN /\ Throw("RangeError")
                  /\ UNCHANGED <<i, eocdOffset, numEntries, centralDirSize, offset>>
             ELSE IF signature = EOCD_SIG
             THEN /\ eocdOffset' = i
                  /\ centralDirSize' = getUint32(buf, i + 12)
                  /\ offset' = getUint32(buf, i + 16)
                  /\ numEntries' = getUint16(buf, i + 10)
                  /\ pc' = "parse"
                  /\ UNCHANGED <<i, err>>
             ELSE /\ i' = i - 1
                  /\ UNCHANGED <<pc, err, eocdOffset, numEntries, centralDirSize, offset>>
     ELSE /\ Throw("Not a valid ZIP file: EOCD not found")
          /\ UNCHANGED <<i, eocdOffset, numEntries, centralDirSize, offset>>
  /\ UNCHANGED <<src, buf, files, results, streams>>

\* One turn of parse's loop over the central directory; past the last
\* turn the constructor returns.
ParseStep ==
  /\ pc = "parse"
  /\ IF Len(files) < numEntries
     THEN LET signature == getUint32(buf, offset)
              fileInfo == parseCentralDirectoryEntry(buf, offset)
          IN IF signature = RangeError
             THEN Throw("RangeError") /\ UNCHANGED <<files, offset>>
             ELSE IF signature # CD_SIG
             THEN Throw("Invalid central directory signature") /\ UNCHANGED <<files, offset>>
             ELSE IF parseCentralDirectoryEntryThrows(buf, offset)
             THEN Throw("RangeError") /\ UNCHANGED <<files, offset>>
             ELSE /\ files' = Append(files, fileInfo)
                  /\ offset' = offset + recordLength(buf, offset)
                  /\ UNCHANGED <<pc, err>>
     ELSE /\ pc' = "ready"
          /\ UNCHANGED <<files, offset, err>>
  /\ UNCHANGED <<src, buf, i, eocdOffset, numEntries, centralDirSize, results, streams>>


\* ---------------------------------------------------------- extraction

\* find matching without regard to case (ASCII).
Fold(name) == [k \in DOMAIN name |->
                 IF name[k] >= 65 /\ name[k] <= 90 THEN name[k] + 32 ELSE name[k]]

RECURSIVE findFold(_, _, _)
findFold(fs, filename, k) ==
  IF k > Len(fs) THEN 0
  ELSE IF Fold(fs[k].filename) = Fold(filename) THEN k
  ELSE findFold(fs, filename, k + 1)

\* find keeping the last match, as a map keyed by filename would.
RECURSIVE findLast(_, _, _)
findLast(fs, filename, k) ==
  LET later == IF k >= Len(fs) THEN 0 ELSE findLast(fs, filename, k + 1)
  IN IF k > Len(fs) THEN 0
     ELSE IF later # 0 THEN later
     ELSE IF fs[k].filename = filename THEN k
     ELSE 0

\* this.files.find((f) => f.filename === filename): the index of the
\* first match from position k on, 0 when there is none.
RECURSIVE find(_, _, _)
find(fs, filename, k) ==
  IF k > Len(fs) THEN 0
  ELSE IF fs[k].filename = filename THEN k
  ELSE find(fs, filename, k + 1)

Outcome(kind, e, method, off, len) ==
  [kind |-> kind, error |-> e, method |-> method, off |-> off, len |-> len]

Unset == Outcome("unset", "", 0, 0, 0)

Thrown(e, method) == Outcome("throw", e, method, 0, 0)

\* dataOffset with the extra field's length forgotten.
dataOffsetNoExtra(b, localHeaderOffset) ==
  LET filenameLen == getUint16(b, localHeaderOffset + 26)
  IN IF filenameLen = RangeError THEN RangeError
     ELSE localHeaderOffset + 30 + filenameLen

\* Where the payload starts, from the lengths the local header gives;
\* RangeError when they lie outside the buffer.
dataOffset(b, localHeaderOffset) ==
  LET filenameLen == getUint16(b, localHeaderOffset + 26)
      extraLen == getUint16(b, localHeaderOffset + 28)
  IN IF filenameLen = RangeError \/ extraLen = RangeError THEN RangeError
     ELSE localHeaderOffset + 30 + filenameLen + extraLen

\* makeStream handing out the payload of an unknown method as it is.
makeStreamAnyMethod(fileInfo, off) ==
  IF fileInfo.compressionMethod = 8
  THEN Outcome("stream", "", 8, off, fileInfo.compressedSize)
  ELSE Outcome("stream", "", 0, off, fileInfo.compressedSize)

\* makeStream piping a stored payload through the decompressor as well.
makeStreamInflateAll(fileInfo, off) ==
  IF fileInfo.compressionMethod \in {0, 8}
  THEN Outcome("stream", "", 8, off, fileInfo.compressedSize)
  ELSE Thrown("Unsupported compression method", fileInfo.compressionMethod)

\* The stream extractFile makes of the payload, by compression method.
makeStream(fileInfo, off) ==
  IF fileInfo.compressionMethod = 0
  THEN Outcome("stream", "", 0, off, fileInfo.compressedSize)
  ELSE IF fileInfo.compressionMethod = 8
  THEN Outcome("stream", "", 8, off, fileInfo.compressedSize)
  ELSE Thrown("Unsupported compression method", fileInfo.compressionMethod)

\* extractFile once the entry is found: the local header is re-read, the
\* payload viewed, and the stream made.
extractEntry(b, fileInfo) ==
  LET localHeaderOffset == fileInfo.offset
      signature == getUint32(b, localHeaderOffset)
      off == dataOffset(b, localHeaderOffset)
  IN IF signature = RangeError THEN Thrown("RangeError", 0)
     ELSE IF signature # LOCAL_SIG
     THEN Thrown("Invalid local file header signature", 0)
     ELSE IF off = RangeError THEN Thrown("RangeError", 0)
     ELSE IF ~ViewOk(b, off, fileInfo.compressedSize) THEN Thrown("RangeError", 0)
     ELSE makeStream(fileInfo, off)

\* extractFile(filename): null, a stream, or what it throws.
extractFile(fs, b, filename) ==
  LET k == find(fs, filename, 1)
  IN IF k = 0 THEN Outcome("null", "", 0, 0, 0)
     ELSE extractEntry(b, fs[k])

\* DecompressionStream('deflate-raw') on the whole of data, for data made
\* of stored blocks (RFC 1951, 3.2.4): the bytes put out, and whether the
\* stream then ends or errors.  Huffman blocks and bytes after the final
\* block are not modelled.
RECURSIVE Inflate(_, _)
Inflate(data, p) ==
  IF p > Len(data) THEN [status |-> "error", out |-> << >>]
  ELSE LET bfinal == data[p] % 2
           btype == (data[p] \div 2) % 4
       IN IF btype = 3 THEN [status |-> "error", out |-> << >>]
          ELSE IF btype # 0 THEN [status |-> "unmodelled", out |-> << >>]
          ELSE IF p + 4 > Len(data) THEN [status |-> "error", out |-> << >>]
          ELSE LET len == data[p + 1] + 256 * data[p + 2]
                   nlen == data[p + 3] + 256 * data[p + 4]
               IN IF len + nlen # 65535 THEN [status |-> "error", out |-> << >>]
                  ELSE IF p + 4 + len > Len(data)
                  THEN [status |-> "error", out |-> SubSeq(data, p + 5, Len(data))]
                  ELSE LET block == SubSeq(data, p + 5, p + 4 + len)
                       IN IF bfinal = 1
                          THEN [status |-> IF p + 4 + len = Len(data)
                                           THEN "ok" ELSE "unmodelled",
                                out |-> block]
                          ELSE LET rest == Inflate(data, p + 5 + len)
                               IN [status |-> rest.status, out |-> block \o rest.out]

\* ExtractFile dropping the first listed entry when the call throws.
ExtractFileShift(filename) ==
  /\ pc = "ready"
  /\ LET r == extractFile(files, buf, filename)
     IN /\ results' = [results EXCEPT ![filename] = r]
        /\ files' = IF r.kind = "throw" THEN Tail(files) ELSE files
        /\ IF r.kind = "stream"
           THEN /\ Len(streams) < MaxStreams
                /\ streams' = Append(streams,
                     [name |-> filename, method |-> r.method, off |-> r.off,
                      len |-> r.len, chunks |-> 0, got |-> << >>,
                      state |-> "readable"])
           ELSE UNCHANGED streams
  /\ UNCHANGED <<src, buf, pc, i, eocdOffset, numEntries, centralDirSize,
                 offset, err>>

\* A call of extractFile(filename).  A stream it returns goes to the
\* caller, who holds at most MaxStreams of them.
ExtractFile(filename) ==
  /\ pc = "ready"
  /\ LET r == extractFile(files, buf, filename)
     IN /\ results' = [results EXCEPT ![filename] = r]
        /\ IF r.kind = "stream"
           THEN /\ Len(streams) < MaxStreams
                /\ streams' = Append(streams,
                     [name |-> filename, method |-> r.method, off |-> r.off,
                      len |-> r.len, chunks |-> 0, got |-> << >>,
                      state |-> "readable"])
           ELSE UNCHANGED streams
  /\ UNCHANGED <<src, buf, pc, i, eocdOffset, numEntries, centralDirSize,
                 offset, files, err>>

\* reader.read() on the k-th stream.  A stored entry's stream holds the
\* one chunk start() queued, a view of the buffer, and is then done.  A
\* deflated entry's stream hands out the inflated bytes in chunks of any
\* size, and then is done or errors.
Read(k) ==
  /\ pc = "ready"
  /\ k \in 1..Len(streams)
  /\ streams[k].state = "readable"
  /\ LET s == streams[k]
         data == ViewBytes(buf, s.off, s.len)
     IN IF s.method = 0
        THEN IF s.chunks = 0
             THEN streams' = [streams EXCEPT ![k].chunks = 1, ![k].got = data]
             ELSE streams' = [streams EXCEPT ![k].state = "closed"]
        ELSE LET z == Inflate(data, 1)
                 left == Len(z.out) - Len(s.got)
             IN /\ z.status # "unmodelled"
                /\ IF left > 0
                   THEN \E n \in 1..left :
                          streams' = [streams EXCEPT
                            ![k].chunks = s.chunks + 1,
                            ![k].got = s.got \o SubSeq(z.out, Len(s.got) + 1, Len(s.got) + n)]
                   ELSE streams' = [streams EXCEPT
                          ![k].state = IF z.status = "ok" THEN "closed" ELSE "errored"]
  /\ UNCHANGED <<src, buf, pc, i, eocdOffset, numEntries, centralDirSize,
                 offset, files, err, results>>

\* The caller cancels the k-th stream, or drops it, read to the end or not.
Cancel(k) ==
  /\ pc = "ready"
  /\ k \in 1..Len(streams)
  /\ streams' = [j \in 1..(Len(streams) - 1) |->
                   IF j < k THEN streams[j] ELSE streams[j + 1]]
  /\ UNCHANGED <<src, buf, pc, i, eocdOffset, numEntries, centralDirSize,
                 offset, files, err, results>>

\* ------------------------------------------------------ specifications

\* The constructor has made the DataView and is about to call parse().
InitOn(archives) ==
  /\ src \in archives
  /\ buf = Build(src.entries, src.mangle)
  /\ pc = "findEOCD"
  /\ i = byteLength(buf) - 22
  /\ eocdOffset = 0
  /\ numEntries = 0
  /\ centralDirSize = 0
  /\ offset = 0
  /\ files = << >>
  /\ err = ""
  /\ results = [f \in Names |-> Unset]
  /\ streams = << >>

Init == InitOn(Archives)

InitScan == InitOn(ScanArchives)

Next ==
  \/ FindEOCDStep
  \/ ParseStep
  \/ \E filename \in Names : ExtractFile(filename)
  \/ \E k \in 1..MaxStreams : Read(k)
  \/ \E k \in 1..MaxStreams : Cancel(k)

Spec == Init /\ [][Next]_vars

SpecScan == InitScan /\ [][Next]_vars

\* The constructor is synchronous code: once entered it runs until it
\* returns or throws.
SpecFair == Spec /\ WF_vars(FindEOCDStep) /\ WF_vars(ParseStep)


\* -------------------------------------------------------------- claims

\* The entries whose filename is f, by position in the list.
Matches(f) == {k \in 1..Len(files) : files[k].filename = f}

Lowest(S) == CHOOSE k \in S : \A j \in S : k <= j

Called(f) == results[f] # Unset

\* Where the k-th central record starts: the directory's offset plus the
\* lengths of the k - 1 records before it.
RECURSIVE RecordStart(_, _, _)
RecordStart(b, start, k) ==
  IF k = 1 THEN start
  ELSE LET p == RecordStart(b, start, k - 1)
       IN p + 46 + getUint16(b, p + 28) + getUint16(b, p + 30) + getUint16(b, p + 32)

\* C1: once construction has succeeded the list holds as many entries as
\* the 16-bit count at trailer offset +10, and (already while the list
\* grows) its k-th entry is the one parsed from the record that starts at
\* the central directory's offset plus 46 + filenameLength + extraLength +
\* commentLength of each of the k - 1 records before it.
C1_ListFollowsDirectory ==
  /\ pc = "ready" => Len(files) = getUint16(buf, eocdOffset + 10)
  /\ pc \in {"parse", "ready"} =>
       \A k \in 1..Len(files) :
         files[k] = parseCentralDirectoryEntry(buf,
                      RecordStart(buf, getUint32(buf, eocdOffset + 16), k))

\* C1's case: two entries listed, the first record carrying an extra
\* field and a comment.
C1_Witness ==
  /\ pc = "ready"
  /\ Len(files) = 2
  /\ getUint16(buf, getUint32(buf, eocdOffset + 16) + 32) > 0
  /\ getUint16(buf, getUint32(buf, eocdOffset + 16) + 30) > 0

\* C4: extractFile of a filename that no listed entry has returns null,
\* whatever the buffer and the local headers hold.
C4_AbsentNameGivesNull ==
  \A f \in Names :
    (Called(f) /\ Matches(f) = {}) => results[f].kind = "null"

\* C4's case: null for an absent name in an archive one of whose entries
\* points at no local-header signature.
C4_Witness ==
  \E f \in Names :
    /\ results[f].kind = "null"
    /\ \E k \in 1..Len(files) : getUint32(buf, files[k].offset) # LOCAL_SIG

\* C10: when one or more listed entries have the filename, the call ends
\* as extraction of the first of them in directory order ends.
C10_FirstMatchWins ==
  \A f \in Names :
    (Called(f) /\ Matches(f) # {}) =>
      results[f] = extractEntry(buf, files[Lowest(Matches(f))])

\* C10's case: two entries of one name whose extraction differs, and the
\* name extracted.
C10_Witness ==
  \E f \in Names :
    /\ Called(f)
    /\ \E k \in Matches(f) :
         extractEntry(buf, files[k]) # extractEntry(buf, files[Lowest(Matches(f))])

\* The entry extractFile(f) finds.
Found(f) == files[Lowest(Matches(f))]

\* What a stream has handed out is what the payload at off, len holds.
StreamReadsPayload(s, off, len) ==
  LET payload == ViewBytes(buf, off, len)
  IN IF s.method = 0
     THEN s.chunks > 0 => s.got = payload
     ELSE /\ Len(s.got) <= Len(Inflate(payload, 1).out)
          /\ s.got = SubSeq(Inflate(payload, 1).out, 1, Len(s.got))
          /\ s.state = "closed" => s.got = Inflate(payload, 1).out

\* C9: for a found entry, four bytes at localHeaderOffset that are not
\* 0x04034B50 make the call fail with the local-header signature error,
\* and a stream that is returned reads exactly compressedSize bytes from
\* localHeaderOffset + 30 + the filename and extra lengths of the local
\* header (at +26 and +28).
C9_PayloadFromLocalHeader ==
  \A f \in Names :
    (Called(f) /\ Matches(f) # {}) =>
      LET e == Found(f)
          start == e.offset + 30 + getUint16(buf, e.offset + 26)
                            + getUint16(buf, e.offset + 28)
      IN /\ (InRange(buf, e.offset, 4) /\ getUint32(buf, e.offset) # LOCAL_SIG)
              => results[f] = Thrown("Invalid local file header signature", 0)
         /\ results[f].kind = "stream" =>
              /\ getUint32(buf, e.offset) = LOCAL_SIG
              /\ results[f].off = start
              /\ results[f].len = e.compressedSize
              /\ \A j \in 1..Len(streams) :
                   streams[j].name = f =>
                     /\ streams[j].off = start /\ streams[j].len = e.compressedSize
                     /\ StreamReadsPayload(streams[j], start, e.compressedSize)

\* C9's case: a stream read to the end for an entry whose local extra
\* field is longer than the central directory's copy says.
C9_Witness ==
  \E j \in 1..Len(streams) :
    /\ streams[j].state = "closed"
    /\ streams[j].got # << >>
    /\ LET k == Lowest(Matches(streams[j].name))
       IN src.entries[k].lextra # src.entries[k].cextra

\* C6 as claimed: a found entry, not encrypted, its local signature
\* valid: a method other than 0 and 8 makes the call fail with the
\* unsupported-method error naming the method, 0 and 8 return a stream.
C6_Original ==
  \A f \in Names :
    (/\ Called(f) /\ Matches(f) # {}
     /\ ~Found(f).encrypted
     /\ getUint32(buf, Found(f).offset) = LOCAL_SIG) =>
      IF Found(f).compressionMethod \in {0, 8}
      THEN results[f].kind = "stream"
      ELSE results[f] = Thrown("Unsupported compression method",
                               Found(f).compressionMethod)

\* The 30 bytes of the local header and the compressedSize bytes after
\* the header, its filename and its extra field all lie in the buffer.
PayloadInBuffer(e) ==
  /\ InRange(buf, e.offset, 30)
  /\ e.compressedSize <=
       byteLength(buf) - (e.offset + 30 + getUint16(buf, e.offset + 26)
                                        + getUint16(buf, e.offset + 28))

\* C6, amended: as claimed, for an entry whose local header and payload
\* lie inside the buffer.
C6_MethodDispatch ==
  \A f \in Names :
    (/\ Called(f) /\ Matches(f) # {}
     /\ ~Found(f).encrypted
     /\ getUint32(buf, Found(f).offset) = LOCAL_SIG
     /\ PayloadInBuffer(Found(f))) =>
      IF Found(f).compressionMethod \in {0, 8}
      THEN results[f].kind = "stream"
      ELSE results[f] = Thrown("Unsupported compression method",
                               Found(f).compressionMethod)

\* C6's case: a call that failed on method 12, in an archive another of
\* whose entries was returned as a stream.
C6_Witness ==
  /\ \E f \in Names : results[f] = Thrown("Unsupported compression method", 12)
  /\ \E f \in Names : results[f].kind = "stream"

\* C3: a found entry with the encrypted flag set makes the call fail with
\* an unsupported-feature error; no stream is returned for it.
C3_EncryptedRejected ==
  \A f \in Names :
    (Called(f) /\ Matches(f) # {} /\ Found(f).encrypted) =>
      /\ results[f].kind = "throw"
      /\ results[f].error \in {"Unsupported compression method",
                               "Encrypted entries not supported"}

\* C2 as claimed: every listed entry of method 0 is returned as a stream
\* that, read to its end, has handed out exactly uncompressedSize bytes,
\* those of the entry's source.
C2_Original ==
  \A k \in 1..Len(files) :
    (pc = "ready" /\ files[k].compressionMethod = 0) =>
      LET f == files[k].filename
      IN /\ Called(f) => results[f].kind = "stream"
         /\ \A j \in 1..Len(streams) :
              (streams[j].name = f /\ streams[j].state # "readable") =>
                /\ streams[j].state = "closed"
                /\ Len(streams[j].got) = files[k].uncompressedSize
                /\ streams[j].got = src.entries[k].content

\* C2, amended: as claimed, for an entry that is the first of its name in
\* the list and that was written faithfully (a valid local header where
\* the directory points, not encrypted, the source bytes stored as they
\* are, both declared sizes their number).
C2_StoredRoundTrip ==
  \A k \in 1..Len(files) :
    (/\ pc = "ready" /\ files[k].compressionMethod = 0
     /\ k = Lowest(Matches(files[k].filename))
     /\ Faithful(src.entries[k])) =>
      LET f == files[k].filename
      IN /\ Called(f) => results[f].kind = "stream"
         /\ \A j \in 1..Len(streams) :
              (streams[j].name = f /\ streams[j].state # "readable") =>
                /\ streams[j].state = "closed"
                /\ Len(streams[j].got) = files[k].uncompressedSize
                /\ streams[j].got = src.entries[k].content

\* C2's case: the stream of a faithfully written stored entry, one with
\* an extra field in its local header, read to the end.
C2_Witness ==
  \E j \in 1..Len(streams) :
    /\ streams[j].state = "closed"
    /\ streams[j].method = 0
    /\ LET k == Lowest(Matches(streams[j].name))
       IN /\ Faithful(src.entries[k])
          /\ src.entries[k].lextra > 0
          /\ streams[j].got = src.entries[k].content


\* The search window, and: no offset of it holds the trailer signature.
WindowLow(b) ==
  IF byteLength(b) - 22 - 65535 > 0 THEN byteLength(b) - 22 - 65535 ELSE 0

WindowHigh(b) == byteLength(b) - 22

NoTrailer(b) ==
  \A j \in WindowLow(b)..WindowHigh(b) : getUint32(b, j) # EOCD_SIG

\* Past the search the reader holds a trailer found in the window (so a
\* buffer without one never gets past it); a throw leaves the caller
\* nothing to call; a reader that is returned lists every declared record.
C5_Inv ==
  /\ pc \in {"parse", "ready"} =>
       /\ eocdOffset \in WindowLow(buf)..WindowHigh(buf)
       /\ getUint32(buf, eocdOffset) = EOCD_SIG
  /\ pc = "failed" =>
       /\ streams = << >>
       /\ \A f \in Names : ~Called(f)
       /\ err \in {"Not a valid ZIP file: EOCD not found",
                   "Invalid central directory signature", "RangeError"}
       /\ NoTrailer(buf) => err = "Not a valid ZIP file: EOCD not found"
  /\ pc = "ready" =>
       /\ Len(files) = numEntries
       /\ \A k \in 1..numEntries :
            getUint32(buf, RecordStart(buf, getUint32(buf, eocdOffset + 16), k)) = CD_SIG

C5_Step ==
  (/\ pc = "parse" /\ Len(files) < numEntries
   /\ InRange(buf, offset, 4) /\ getUint32(buf, offset) # CD_SIG)
  => (pc' = "failed" /\ err' = "Invalid central directory signature")

\* C5: construction ends, and it is all or nothing.  On a buffer with no
\* trailer signature in the search window (a buffer shorter than 22 bytes
\* included) it throws the trailer-not-found error; a declared record
\* without the central-directory signature makes it throw the signature
\* error at that record; after a throw no reader reaches the caller (no
\* extractFile call, no stream); a reader that is returned lists every
\* declared record.
C5_AllOrNothing ==
  /\ []C5_Inv
  /\ [][C5_Step]_vars
  /\ <>(pc \in {"ready", "failed"})

\* C5's case: the constructor has thrown on a central-directory signature
\* with entries already in the list.
C5_Witness ==
  /\ pc = "failed"
  /\ err = "Invalid central directory signature"
  /\ Len(files) >= 1

C7_StreamsAgree ==
  \A j \in 1..Len(streams) :
    LET s == streams[j]
    IN /\ results[s.name].kind = "stream"
       /\ s.off = results[s.name].off
       /\ s.len = results[s.name].len
       /\ s.method = results[s.name].method
       /\ \A k \in 1..Len(streams) :
            LET t == streams[k]
            IN (t.name = s.name /\ Len(s.got) <= Len(t.got)) =>
                 /\ s.got = SubSeq(t.got, 1, Len(s.got))
                 /\ (s.state # "readable" /\ t.state # "readable") =>
                      (s.got = t.got /\ s.state = t.state)

C7_Step ==
  pc = "ready" =>
    /\ buf' = buf
    /\ files' = files
    /\ pc' = "ready"
    /\ \A f \in Names : Called(f) => results'[f] = results[f]

\* C7: once the reader is constructed, no extractFile call, read or
\* cancellation changes the buffer or the list; a filename extracted
\* again ends as it ended before, whatever was called, read, failed or
\* abandoned in between; and the streams of one filename hand out the
\* same bytes and end the same way.
C7_ExtractionIsRepeatable ==
  /\ []C7_StreamsAgree
  /\ [][C7_Step]_vars

\* C7's case: one filename whose extraction threw, and two streams of
\* another filename, both read to the end.
C7_Witness ==
  /\ \E f \in Names : results[f].kind = "throw"
  /\ Len(streams) = 2
  /\ streams[1].name = streams[2].name
  /\ streams[1].state = "closed" /\ streams[2].state = "closed"
  /\ streams[1].got # << >>

\* C8: the search looks only at offsets from byteLength - 22 down to
\* max(0, byteLength - 22 - 65535), each read inside the buffer; it gives
\* up only with every offset of that window looked at and none holding
\* the signature; the trailer it selects holds the signature, no higher
\* offset of the window does, and the entry count, the directory's size
\* and its offset are read from it.
C8_TrailerSearch ==
  /\ pc = "findEOCD" =>
       /\ i <= WindowHigh(buf)
       /\ i >= WindowLow(buf) - 1
       /\ i >= WindowLow(buf) => InRange(buf, i, 4)
  /\ (pc = "failed" /\ err = "Not a valid ZIP file: EOCD not found") =>
       /\ i = WindowLow(buf) - 1 \/ byteLength(buf) < 22
       /\ NoTrailer(buf)
  /\ (pc = "failed" /\ files = << >> /\ numEntries = 0) =>
       err = "Not a valid ZIP file: EOCD not found"
  /\ pc \in {"parse", "ready"} =>
       /\ eocdOffset \in WindowLow(buf)..WindowHigh(buf)
       /\ getUint32(buf, eocdOffset) = EOCD_SIG
       /\ numEntries = getUint16(buf, eocdOffset + 10)
       /\ centralDirSize = getUint32(buf, eocdOffset + 12)
  /\ (pc = "parse" /\ files = << >>) =>
       /\ offset = getUint32(buf, eocdOffset + 16)
       /\ \A j \in (eocdOffset + 1)..WindowHigh(buf) : getUint32(buf, j) # EOCD_SIG

\* C8's case: two offsets of the window hold the signature, and the
\* higher one was selected.
C8_Witness ==
  /\ pc = "parse"
  /\ \E j \in WindowLow(buf)..(eocdOffset - 1) : getUint32(buf, j) = EOCD_SIG


====
